---- MODULE Spec2Model ----
(***************************************************************************)
(* golissimo: the scheduled pipeline of src/src/index.ts.  A Cloudflare    *)
(* Worker reads the r/soccer listing, keeps "Media" posts, resolves each   *)
(* to a media URL, deduplicates through the PROCESSED_POSTS_KV namespace   *)
(* and posts to Telegram (sendPhoto / sendVideo / sendMessage).            *)
(*                                                                         *)
(* A URL is a record of the parts the code looks at: scheme, host, path,   *)
(* ext and query, so that scheme ":" ["//" host] path ext query is the     *)
(* string ("//" host when auth holds).  The string tests of the code       *)
(* (includes, endsWith, the regular expressions) are computed on the       *)
(* parts.                                                                  *)
(***************************************************************************)
EXTENDS Integers, Sequences, FiniteSets, Bags, TLC

(***************************************************************************)
(* URLs.                                                                   *)
(***************************************************************************)
\* a string with scheme, authority, path and query
Str(s, a, h, p, e, q) ==
    [scheme |-> s, auth |-> a, host |-> h, path |-> p, ext |-> e, query |-> q]

\* an https URL
Url(h, p, e, q) == Str("https", TRUE, h, p, e, q)

\* null, undefined and '' are all falsy where the code tests a URL
NoUrl == Url("", "", "", "")

\* String.prototype.toLowerCase on the host names of the model
Lower(s) == IF s = "CDN.Example" THEN "cdn.example" ELSE s

\* s.includes(needle) for the host tokens of the model
HostIncludes(h, needle) ==
    CASE needle = "v.redd.it"       -> h = "v.redd.it"
      [] needle = "googlevideo.com" -> h = "rr1.googlevideo.com"
      [] needle = "streamain.com"   -> h = "streamain.com"
      [] OTHER                      -> FALSE

\* url.includes('v.redd.it') || url.includes('reddit.com')
IsRedditVideo(u) == HostIncludes(u.host, "v.redd.it") \/ HostIncludes(u.host, "reddit.com")

\* url.includes('googlevideo.com/videoplayback'): the host ends the authority
\* and the path follows it
IncludesVideoplayback(u) ==
    HostIncludes(u.host, "googlevideo.com") /\ u.path = "/videoplayback"

IncludesMp4(u) == u.ext = ".mp4"

\* url.endsWith('.mp4'): nothing may follow the suffix
EndsWithMp4(u) == u.ext = ".mp4" /\ u.query = ""

IncludesM3u8(u) == u.ext = ".m3u8"

IncludesDash(u) == u.path \in {"/DASH_480", "/DASH_96"}

\* url.includes('DASH_96.')
IncludesDash96(u) == u.path = "/DASH_96" /\ u.ext # ""

isMp4Url(u) ==
    \/ IncludesMp4(u) /\ ~IncludesDash96(u)
    \/ IncludesVideoplayback(u)
    \/ /\ u.path = "/videoplayback"
       /\ u.query \in {"?mime=video", "?contenttype=video"}

isDirectImageUrl(u) ==
    \/ Lower(u.host) = "preview.redd.it"
    \/ u.ext \in {".jpg", ".jpeg", ".png", ".webp", ".gif"}
    \/ u.query = "?format=pjpg"

\* pathname.replace(/\/+$/, '') for the paths of the model
TrimSlashes(p) ==
    CASE p = "/watch/" -> "/watch" [] p = "/" -> "" [] p = "a/" -> "a" [] OTHER -> p

\* new URL(rawUrl) does not throw: there is a scheme, and an https URL has a
\* host
Parses(u) == u.scheme # "" /\ ~(u.scheme = "https" /\ u.host = "")

\* a URL with an opaque path: no special scheme, no authority, and a path
\* that does not start with a slash (x:a/).  Its hostname is '' and the
\* setters of hostname and pathname do nothing
HasOpaquePath(u) == u.scheme # "https" /\ ~u.auth /\ u.path \in {"", "a", "a/"}

\* the string protocol + '//' + '' + pathname of an opaque path reads as an
\* authority and a path: what stands before the first slash, and the rest
OpaqueHost(p) == IF p = "a/" THEN "a" ELSE p

OpaqueRest(p) == IF p = "a/" THEN "/" ELSE ""

\* u.pathname = trimmed: the path of a special URL is never empty
SetPathname(u, trimmed) == IF u.scheme = "https" /\ trimmed = "" THEN "/" ELSE trimmed

\* search and hash are dropped, the host is lower-cased, the slashes that end
\* the pathname go; the result is protocol + '//' + hostname + pathname, and
\* the input itself when it does not parse
canonicalizeUrl(u) ==
    IF ~Parses(u) THEN u
    ELSE IF HasOpaquePath(u)
    THEN Str(u.scheme, TRUE, OpaqueHost(u.path), OpaqueRest(u.path), u.ext, "")
    ELSE Str(u.scheme, TRUE, Lower(u.host),
             IF u.ext = "" THEN SetPathname(u, TrimSlashes(u.path)) ELSE u.path,
             u.ext, "")

\* a key of the KV namespace: `post:<name>` or `media:<canonical url>`
MediaKey(u) == [ns |-> "media", id |-> canonicalizeUrl(u)]

NoKey == [ns |-> "", id |-> NoUrl]

(***************************************************************************)
(* Posts of the listing.                                                   *)
(***************************************************************************)
Post(n, f, fb, sc, hls, pmp4, pgif, gal, psrc, ov, url) ==
    [name |-> n, link_flair_text |-> f, fallback_url |-> fb,
     scraper_media_url |-> sc, hls_url |-> hls, preview_mp4 |-> pmp4,
     preview_gif |-> pgif, gallery |-> gal, preview_source |-> psrc,
     url_overridden_by_dest |-> ov, url |-> url]

\* a link post: only url_overridden_by_dest and url are set
LinkPost(n, f, u) ==
    Post(n, f, NoUrl, NoUrl, NoUrl, NoUrl, NoUrl, <<>>, NoUrl, u, u)

\* the first truthy entry of a list of URLs
RECURSIVE FirstUrl(_)
FirstUrl(s) ==
    IF s = <<>> THEN NoUrl
    ELSE IF Head(s) # NoUrl THEN Head(s) ELSE FirstUrl(Tail(s))

\* /(\.jpe?g|\.png|\.gif|\.mp4|\.m3u8)(\?|$)/i on d.url
HasMediaSuffix(u) == u.ext \in {".jpg", ".jpeg", ".png", ".gif", ".mp4", ".m3u8"}

\* an extraction that looks at the gallery before the preview variants
extractBestMediaUrlGalleryFirst(d) ==
    FirstUrl(<<d.fallback_url, d.scraper_media_url, d.hls_url,
               FirstUrl(d.gallery), d.preview_mp4, d.preview_gif,
               d.preview_source, d.url_overridden_by_dest,
               IF HasMediaSuffix(d.url) THEN d.url ELSE NoUrl>>)

extractBestMediaUrl(d) ==
    FirstUrl(<<d.fallback_url, d.scraper_media_url, d.hls_url,
               d.preview_mp4, d.preview_gif, FirstUrl(d.gallery),
               d.preview_source, d.url_overridden_by_dest,
               IF HasMediaSuffix(d.url) THEN d.url ELSE NoUrl>>)

derivePostKey(d) == [ns |-> "post", id |-> Url("", d.name, "", "")]

(***************************************************************************)
(* validateVideoUrl: a HEAD probe, then a ranged GET probe.  A probe is    *)
(* what the network answers: head and get are "throw" or a status, ctype   *)
(* and gtype the content-type headers, clen the content-length header of   *)
(* the HEAD answer, body what getResponse.text() gives ("throw" when the   *)
(* read fails).                                                            *)
(***************************************************************************)
Statuses == {"throw", "200", "206", "404"}

ContentTypes == {"", "video/mp4", "Video/MP4", "application/octet-stream",
                 "text/html; charset=utf-8", "text/plain",
                 "application/vnd.apple.mpegurl"}

ContentLengths == {"", "99999", "100000", "abc"}

Bodies == {"bytes", "<html>", "  <html>", "x<!DOCTYPE", "x<html", "throw"}

Probes == [head : Statuses, ctype : ContentTypes, clen : ContentLengths,
           get : Statuses, gtype : ContentTypes, body : Bodies]

\* Response.ok: a status in 200..299
ResponseOk(st) == st \in {"200", "206"}

\* (headers.get('content-type') || '').toLowerCase().includes(needle)
TypeIncludes(ct, needle) ==
    CASE needle = "text/html"  -> ct = "text/html; charset=utf-8"
      [] needle = "text/plain" -> ct = "text/plain"
      [] needle = "video/"     -> ct \in {"video/mp4", "Video/MP4"}
      [] needle = "application/octet-stream" -> ct = "application/octet-stream"
      [] OTHER -> FALSE

\* chunk.trim().startsWith('<') || chunk.includes('<!DOCTYPE') || chunk.includes('<html')
LooksLikeHtml(body) == body \in {"<html>", "  <html>", "x<!DOCTYPE", "x<html"}

\* size < 100000 with size = contentLength ? parseInt(contentLength, 10) : 0;
\* parseInt('abc') is NaN and NaN < 100000 is false
TooSmall(clen) == clen \in {"", "99999"}

\* a validation that looks at the declared content type only, whatever became
\* of the probes
validateVideoUrlByType(p) ==
    ~(TypeIncludes(p.ctype, "text/html") \/ TypeIncludes(p.ctype, "text/plain"))

validateVideoUrl(p) ==
    IF p.head = "throw" THEN FALSE
    ELSE IF ~ResponseOk(p.head) THEN FALSE
    ELSE IF TypeIncludes(p.ctype, "text/html") \/ TypeIncludes(p.ctype, "text/plain")
         THEN FALSE
    ELSE IF TypeIncludes(p.ctype, "video/")
            \/ TypeIncludes(p.ctype, "application/octet-stream")
         THEN IF p.get = "throw" THEN FALSE
              ELSE IF ~ResponseOk(p.get) /\ p.get # "206" THEN FALSE
              ELSE IF TypeIncludes(p.gtype, "text/html")
                      \/ TypeIncludes(p.gtype, "text/plain")
                   THEN FALSE
              ELSE IF p.body = "throw" THEN FALSE
              ELSE IF LooksLikeHtml(p.body) THEN FALSE
              ELSE IF TypeIncludes(p.ctype, "application/octet-stream")
                      /\ TooSmall(p.clen)
                   THEN FALSE
              ELSE TRUE
    ELSE FALSE

\* what a call of validateVideoUrl can give the pipeline
Validations == {validateVideoUrl(p) : p \in Probes}

(***************************************************************************)
(* getFinalStreamUrl: the browser resolver.  A page is what the browser    *)
(* shows: launch is "throw" when puppeteer.launch or newPage fail, net the *)
(* request and response URLs seen during page.goto, later the requests     *)
(* seen while waitForRequest waits, dom the src attributes of the video    *)
(* and source elements, perf the resource-timing entries.                  *)
(***************************************************************************)
ResolvedPool == {Url("v.redd.it", "/clip", ".mp4", ""),
                 Url("cdn.example", "/clip", ".mp4", "")}

Seen == {<<>>} \cup {<<u>> : u \in ResolvedPool}
             \cup {<<Url("v.redd.it", "/DASH_96", ".mp4", ""), u>> : u \in ResolvedPool}

Pages == [launch : {"ok", "throw"}, net : Seen, later : Seen, dom : Seen, perf : Seen]

\* the first URL of a list that isMp4Url accepts
RECURSIVE FirstMp4(_)
FirstMp4(s) ==
    IF s = <<>> THEN NoUrl
    ELSE IF isMp4Url(Head(s)) THEN Head(s) ELSE FirstMp4(Tail(s))

getFinalStreamUrl(pg) ==
    FirstUrl(<<FirstMp4(pg.net), FirstMp4(pg.later), FirstMp4(pg.dom), FirstMp4(pg.perf)>>)

\* what a call of getFinalStreamUrl can give the pipeline: "throw", or the URL
\* (NoUrl for null)
Resolutions ==
    {[threw |-> pg.launch = "throw",
      url |-> IF pg.launch = "throw" THEN NoUrl ELSE getFinalStreamUrl(pg)] : pg \in Pages}

(***************************************************************************)
(* The listings the feed can return.  A scenario is the posts that exist   *)
(* on the subreddit during one behaviour; every fetch returns some of      *)
(* them, in some order.                                                    *)
(***************************************************************************)
\* a text post: no media field, and a url without a media suffix
PNone ==
    Post("t3_none", "Media", NoUrl, NoUrl, NoUrl, NoUrl, NoUrl, <<>>, NoUrl, NoUrl,
         Url("reddit.example", "/comments", "", ""))

PNews == LinkPost("t3_news", "News", Url("i.redd.it", "/pic", ".jpg", ""))

PImage == LinkPost("t3_image", "Media", Url("i.redd.it", "/pic", ".jpg", ""))

PUntrusted == LinkPost("t3_ext", "Media", Url("cdn.example", "/clip", ".mp4", ""))

PUntrustedUpper == LinkPost("t3_extup", "Media", Url("CDN.Example", "/clip", ".mp4", "?x=1"))

PDash == LinkPost("t3_dash", "Media", Url("v.redd.it", "/DASH_480", ".mp4", ""))

PHls ==
    Post("t3_hls", "Media", NoUrl, NoUrl, Url("v.redd.it", "/HLSPlaylist", ".m3u8", ""),
         NoUrl, NoUrl, <<>>, NoUrl, NoUrl, Url("v.redd.it", "/abc", "", ""))

PLiveHls == LinkPost("t3_live", "Media", Url("rr1.googlevideo.com", "/videoplayback", ".m3u8", ""))

PVideo ==
    Post("t3_video", "Media", Url("v.redd.it", "/clip", ".mp4", ""), NoUrl,
         Url("v.redd.it", "/HLSPlaylist", ".m3u8", ""),
         NoUrl, NoUrl, <<>>, NoUrl, NoUrl, Url("v.redd.it", "/abc", "", ""))

PPage == LinkPost("t3_page", "Media", Url("site.example", "/watch", "", ""))

Scenarios == {<<PNone, PImage>>, <<PUntrusted, PUntrustedUpper>>,
              <<PUntrusted, PVideo>>, <<PDash, PHls>>, <<PLiveHls, PPage>>,
              <<PPage, PVideo>>, <<PNews, PImage>>}

\* the listings over n posts: no post twice (a listing holds each post once)
Listings(n) ==
    {<<>>} \cup {<<i>> : i \in 1..n}
           \cup {p \in (1..n) \X (1..n) : p[1] # p[2]}

RECURSIVE Reverse(_)
Reverse(s) == IF s = <<>> THEN <<>> ELSE Append(Reverse(Tail(s)), Head(s))

(***************************************************************************)
(* State.                                                                  *)
(***************************************************************************)
VARIABLES
    posts,    \* the posts of the scenario
    kv,       \* PROCESSED_POSTS_KV: key -> [val, ttl]
    run,      \* the local state of each invocation of scheduled
    delivered, \* the Telegram calls that succeeded so far (a bag)
    sent,     \* the Telegram calls of the current invocation of each run
    feed,     \* the listing the subreddit shows now (newest first)
    started,  \* the invocations started as overlapping runs
    unit      \* a helper function called on its own: its input and result

vars == <<posts, kv, run, delivered, sent, feed, started, unit>>

Runs == {1, 2}

\* no helper is called on its own in the runs of the pipeline
NoUnit == [fn |-> "", done |-> FALSE]

Ttl == 604800

\* the locals of scheduled: pc is the awaited operation it stands at, batch the
\* filtered and reversed listing, i the index of the current post, seen the set
\* processedThisRun, skipped the posts of the batch that logged skip:kv-post
Idle ==
    [pc |-> "idle", batch |-> <<>>, i |-> 0, seen |-> {}, skipped |-> {},
     existingKeyVal |-> "", retriesLeft |-> 0,
     videoUrl |-> NoUrl, link |-> NoUrl, rawMediaKey |-> NoKey,
     mediaKey |-> NoKey, isValidVideo |-> FALSE]

Init ==
    /\ posts \in Scenarios
    /\ kv = <<>>
    /\ run = [r \in Runs |-> Idle]
    /\ delivered = EmptyBag
    /\ sent = [r \in Runs |-> <<>>]
    /\ feed \in Listings(Len(posts))
    /\ started = {}
    /\ unit = NoUnit

(***************************************************************************)
(* The KV namespace.                                                       *)
(***************************************************************************)
Absent == "absent"

\* KV.get: the value, or null (Absent) when there is no record or when its
\* expirationTtl has run out (ttl 0)
KvGet(store, k) ==
    IF k \in DOMAIN store /\ store[k].ttl > 0 THEN store[k].val ELSE Absent

KvPut(store, k, v, ttl) ==
    [x \in DOMAIN store \cup {k} |-> IF x = k THEN [val |-> v, ttl |-> ttl] ELSE store[x]]

KvDelete(store, k) == [x \in DOMAIN store \ {k} |-> store[x]]

\* a value read from the store as a condition: null is falsy
Truthy(v) == v # Absent /\ v # ""

\* Number(existingKeyVal), 0 when it is not finite
NumberOf(v) ==
    CASE v = "0" -> 0 [] v = "1" -> 1 [] v = "2" -> 2 [] v = "3" -> 3
      [] v = "4" -> 4 [] v = "5" -> 5 [] OTHER -> 0

\* (n).toString()
NumToString(n) ==
    CASE n = 0 -> "0" [] n = 1 -> "1" [] n = 2 -> "2" [] n = 3 -> "3"
      [] n = 4 -> "4" [] n = 5 -> "5" [] n = -1 -> "-1" [] OTHER -> "?"

(***************************************************************************)
(* scheduled: the local computations between two awaits.                   *)
(***************************************************************************)
\* videoUrl after the fallback_url / scraper_media_url preference
VideoUrlOf(d) ==
    IF d.fallback_url # NoUrl /\ EndsWithMp4(d.fallback_url) THEN d.fallback_url
    ELSE IF d.scraper_media_url # NoUrl /\ EndsWithMp4(d.scraper_media_url)
         THEN d.scraper_media_url
    ELSE extractBestMediaUrl(d)

mediaKind(d) ==
    IF d.fallback_url # NoUrl /\ EndsWithMp4(d.fallback_url) THEN "mp4_fallback"
    ELSE IF d.scraper_media_url # NoUrl /\ EndsWithMp4(d.scraper_media_url)
         THEN "mp4_scraper"
    ELSE IF /\ IncludesDash(VideoUrlOf(d)) /\ EndsWithMp4(VideoUrlOf(d))
            /\ d.fallback_url = NoUrl /\ d.scraper_media_url = NoUrl
         THEN "dash"
    ELSE "direct"

\* isTrustedSource of the resolution step
isTrustedSourceEarly(u) ==
    \/ HostIncludes(u.host, "v.redd.it")
    \/ HostIncludes(u.host, "reddit.com")
    \/ HostIncludes(u.host, "googlevideo.com")
    \/ HostIncludes(u.host, "streamin.one")

\* isTrustedDomain of the validation step
isTrustedDomain(u) ==
    \/ IsRedditVideo(u)
    \/ HostIncludes(u.host, "streamain.com")
    \/ HostIncludes(u.host, "streamin.one")

\* isTrustedSource of the dispatch step
isTrustedSource(u) ==
    \/ IsRedditVideo(u)
    \/ HostIncludes(u.host, "googlevideo.com")
    \/ HostIncludes(u.host, "streamain.com")
    \/ HostIncludes(u.host, "streamin.one")

\* isMp4 || isYoutubeVideo
isVideoUrl(u) == EndsWithMp4(u) \/ IncludesVideoplayback(u)

\* back to the head of the loop, for the next post
Continue(st) == [Idle EXCEPT !.pc = "loop", !.batch = st.batch, !.i = st.i + 1,
                             !.seen = st.seen, !.skipped = st.skipped]

\* a final stage that checks and moves the reservation in every case
FinalStageAlwaysMove(st) ==
    LET mediaKey == MediaKey(st.videoUrl) IN
    [st EXCEPT !.mediaKey = mediaKey,
               !.pc = IF mediaKey \in st.seen THEN "putDupFinal" ELSE "getFinalMedia"]

\* the final media key: dedupe again only if it differs from the raw key
FinalStage(st) ==
    LET mediaKey == MediaKey(st.videoUrl) IN
    IF mediaKey # st.rawMediaKey
    THEN [st EXCEPT !.mediaKey = mediaKey,
                    !.pc = IF mediaKey \in st.seen THEN "putDupFinal" ELSE "getFinalMedia"]
    ELSE [st EXCEPT !.mediaKey = mediaKey, !.seen = @ \cup {mediaKey}, !.pc = "ai"]

\* which resolution the media URL needs
ResolveStage(st) ==
    LET u == st.videoUrl IN
    IF isDirectImageUrl(u) THEN FinalStage(st)
    ELSE IF IncludesMp4(u) /\ isTrustedSourceEarly(u) THEN FinalStage(st)
    ELSE IF IncludesMp4(u) THEN [st EXCEPT !.pc = "validate1"]
    ELSE [st EXCEPT !.pc = "resolve1"]

\* a shouldSendVideo without the DASH condition
shouldSendVideoAnyDash(u, isValidVideo, retriesLeft) == isVideoUrl(u) /\ isValidVideo

shouldSendVideo(u, isValidVideo, retriesLeft) ==
    isVideoUrl(u) /\ isValidVideo /\ (~IncludesDash(u) \/ retriesLeft <= 1)

\* a dispatcher that sends a valid video URL of any source
DispatchAnySource(st) ==
    LET u == st.videoUrl
        send == shouldSendVideo(u, st.isValidVideo, st.retriesLeft)
    IN  IF send THEN [st EXCEPT !.pc = "sendVideo"]
        ELSE IF st.retriesLeft > 1 THEN [st EXCEPT !.pc = "retryPut"]
        ELSE [st EXCEPT !.pc = "sendMessage"]

\* a dispatcher that puts a rejected URL back for a retry on the last attempt too
DispatchRetryAlways(st) ==
    LET u == st.videoUrl
        send == shouldSendVideo(u, st.isValidVideo, st.retriesLeft)
    IN  IF send /\ isTrustedSource(u) THEN [st EXCEPT !.pc = "sendVideo"]
        ELSE IF st.retriesLeft >= 1 THEN [st EXCEPT !.pc = "retryPut"]
        ELSE [st EXCEPT !.pc = "sendMessage"]

\* the dispatcher: send as video, retry later, or send the text with the link
Dispatch(st) ==
    LET u == st.videoUrl
        send == shouldSendVideo(u, st.isValidVideo, st.retriesLeft)
    IN  IF send /\ ~isTrustedSource(u) /\ st.retriesLeft > 1
        THEN [st EXCEPT !.pc = "retryPut"]
        ELSE IF send /\ isTrustedSource(u) THEN [st EXCEPT !.pc = "sendVideo"]
        ELSE IF st.retriesLeft > 1 THEN [st EXCEPT !.pc = "retryPut"]
        ELSE [st EXCEPT !.pc = "sendMessage"]

\* after the validation: an invalid video URL is retried, or resolved on the
\* last attempt
AfterValidation(st) ==
    IF ~st.isValidVideo /\ isVideoUrl(st.videoUrl)
    THEN IF st.retriesLeft > 1 THEN [st EXCEPT !.pc = "retryPut"]
         ELSE [st EXCEPT !.pc = "resolve2"]
    ELSE Dispatch(st)

\* the state of the invocation r, and the post it works on
Cur(r) == posts[run[r].batch[run[r].i]]

CurKey(r) == derivePostKey(Cur(r))

At(r, pc) == run[r].pc = pc

SetRun(r, st) == run' = [run EXCEPT ![r] = st]

\* a Telegram call of run r for its current post; link is the URL of the
\* source link in the message, media the photo or video URL of the payload
Call(r, verb, media, noAudio, answer) ==
    [post |-> run[r].batch[run[r].i], verb |-> verb, media |-> media,
     link |-> run[r].link, noAudio |-> noAudio, retries |-> run[r].retriesLeft,
     answer |-> answer]

(***************************************************************************)
(* scheduled, one action for each awaited operation.                       *)
(***************************************************************************)
\* the cron trigger fires while no invocation is running
Scheduled(r) ==
    /\ r = 1
    /\ started = {}
    /\ \A q \in Runs : At(q, "idle")
    /\ SetRun(r, [Idle EXCEPT !.pc = "fetch"])
    /\ UNCHANGED <<posts, kv, delivered, sent, feed, started>>

\* the cron trigger fires again before the previous invocation has finished
ScheduledOverlapping(r) ==
    /\ At(r, "idle")
    /\ r \notin started
    /\ r = 1 \/ 1 \in started
    /\ SetRun(r, [Idle EXCEPT !.pc = "fetch"])
    /\ started' = started \cup {r}
    /\ UNCHANGED <<posts, kv, delivered, sent, feed>>

\* the subreddit shows another listing
FeedChanges ==
    /\ \A q \in Runs : At(q, "idle")
    /\ feed' \in Listings(Len(posts)) \ {feed}
    /\ UNCHANGED <<posts, kv, run, delivered, sent, started>>

\* a failed fetch that drops the reservations of the store
FetchFailsClears(r) ==
    /\ At(r, "fetch")
    /\ kv' = [k \in {x \in DOMAIN kv : kv[x].val # "pending"} |-> kv[k]]
    /\ SetRun(r, Idle)
    /\ UNCHANGED <<posts, delivered, sent, feed, started>>

\* fetchRedditNew fails: 429, a non-success status, or a thrown error
FetchFails(r) ==
    /\ At(r, "fetch")
    /\ SetRun(r, Idle)
    /\ UNCHANGED <<posts, kv, delivered, sent, feed, started>>

\* a batch in feed order, newest first
BatchNewestFirst(listing) ==
    SelectSeq(listing, LAMBDA i : posts[i].link_flair_text = "Media")

\* children.filter(flair === 'Media').reverse()
Batch(listing) ==
    Reverse(SelectSeq(listing, LAMBDA i : posts[i].link_flair_text = "Media"))

FetchRedditNew(r) ==
    /\ At(r, "fetch")
    /\ SetRun(r, [Idle EXCEPT !.pc = "loop", !.batch = Batch(feed), !.i = 1])
    /\ UNCHANGED <<posts, kv, delivered, sent, feed, started>>

\* scheduled returns; the calls of an overlapping run are kept, to be compared
\* with those of the other run
Return(r) ==
    /\ SetRun(r, Idle)
    /\ sent' = [sent EXCEPT ![r] = IF r \in started THEN @ ELSE <<>>]

\* the loop is over: scheduled returns
Finish(r) ==
    /\ At(r, "loop")
    /\ run[r].i > Len(run[r].batch)
    /\ Return(r)
    /\ UNCHANGED <<posts, kv, delivered, feed, started>>

\* a skip of the posts that are done only
SkipsDoneOnly(v) == v = "0"

\* a skip of the posts that are pending only
SkipsPendingOnly(v) == v = "pending"

\* existingKeyVal === '0' || existingKeyVal === 'pending'
Skips(v) == v \in {"0", "pending"}

\* KV.get(key): skip a post that is done or pending, else take its retry count
GetPostKey(r) ==
    /\ At(r, "loop")
    /\ run[r].i <= Len(run[r].batch)
    /\ LET existingKeyVal == KvGet(kv, CurKey(r))
           st == [run[r] EXCEPT !.existingKeyVal = existingKeyVal]
           videoUrl == VideoUrlOf(Cur(r))
           retriesLeft == IF existingKeyVal = Absent THEN 5 ELSE NumberOf(existingKeyVal)
           rawMediaKey == MediaKey(videoUrl)
       IN  IF Skips(existingKeyVal)
           THEN SetRun(r, Continue([st EXCEPT !.skipped = @ \cup {st.i}]))
           ELSE IF videoUrl = NoUrl
           THEN SetRun(r, [st EXCEPT !.retriesLeft = retriesLeft, !.pc = "putNoMedia"])
           ELSE SetRun(r, [st EXCEPT !.retriesLeft = retriesLeft, !.videoUrl = videoUrl,
                                     !.rawMediaKey = rawMediaKey,
                                     !.pc = IF rawMediaKey \in st.seen
                                            THEN "putDup" ELSE "getRawMedia"])
    /\ UNCHANGED <<posts, kv, delivered, sent, feed, started>>

\* a KV.get(rawMediaKey) that does not add the key to processedThisRun
GetRawMediaNoMark(r) ==
    /\ At(r, "getRawMedia")
    /\ LET st == run[r] IN
       IF Truthy(KvGet(kv, st.rawMediaKey))
       THEN SetRun(r, [st EXCEPT !.pc = "putDup"])
       ELSE SetRun(r, [st EXCEPT !.pc = "reservePost"])
    /\ UNCHANGED <<posts, kv, delivered, sent, feed, started>>

\* KV.get(rawMediaKey): a media key in the store marks a duplicate
GetRawMedia(r) ==
    /\ At(r, "getRawMedia")
    /\ LET st == run[r] IN
       IF Truthy(KvGet(kv, st.rawMediaKey))
       THEN SetRun(r, [st EXCEPT !.pc = "putDup"])
       ELSE SetRun(r, [st EXCEPT !.seen = @ \cup {st.rawMediaKey}, !.pc = "reservePost"])
    /\ UNCHANGED <<posts, kv, delivered, sent, feed, started>>

\* skip:kv-media: KV.put(key, '0'); continue
PutDup(r) ==
    /\ At(r, "putDup")
    /\ kv' = KvPut(kv, CurKey(r), "0", Ttl)
    /\ SetRun(r, Continue(run[r]))
    /\ UNCHANGED <<posts, delivered, sent, feed, started>>

\* KV.put(key, 'pending')
ReservePost(r) ==
    /\ At(r, "reservePost")
    /\ kv' = KvPut(kv, CurKey(r), "pending", Ttl)
    /\ SetRun(r, [run[r] EXCEPT !.pc = "reserveMedia"])
    /\ UNCHANGED <<posts, delivered, sent, feed, started>>

\* a pipeline that reserves the post key only
ReserveMediaSkip(r) ==
    /\ At(r, "reserveMedia")
    /\ SetRun(r, ResolveStage(run[r]))
    /\ UNCHANGED <<posts, kv, delivered, sent, feed, started>>

\* KV.put(rawMediaKey, 'pending'), then the choice of the resolution
ReserveMedia(r) ==
    /\ At(r, "reserveMedia")
    /\ kv' = KvPut(kv, run[r].rawMediaKey, "pending", Ttl)
    /\ SetRun(r, ResolveStage(run[r]))
    /\ UNCHANGED <<posts, delivered, sent, feed, started>>

\* validateVideoUrl of an untrusted .mp4 URL before any resolution
ValidateUntrustedMp4(r) ==
    /\ At(r, "validate1")
    /\ \E isValid \in Validations :
         IF isValid
         THEN SetRun(r, FinalStage(run[r]))
         ELSE SetRun(r, [run[r] EXCEPT !.pc = "resolve1"])
    /\ UNCHANGED <<posts, kv, delivered, sent, feed, started>>

\* resolved && resolved !== videoUrl
Resolved(videoUrl, resolved) == resolved # NoUrl /\ resolved # videoUrl

\* getFinalStreamUrl before the try block: a throw ends the invocation in the
\* catch of scheduled
ResolveUrl(r) ==
    /\ At(r, "resolve1")
    /\ \E res \in Resolutions :
         IF res.threw
         THEN Return(r)
         ELSE /\ SetRun(r, FinalStage([run[r] EXCEPT !.videoUrl =
                     IF Resolved(@, res.url) THEN res.url ELSE @]))
              /\ sent' = sent
    /\ UNCHANGED <<posts, kv, delivered, feed, started>>

\* KV.get(mediaKey) for a final key that differs from the raw key
GetFinalMedia(r) ==
    /\ At(r, "getFinalMedia")
    /\ LET st == run[r] IN
       IF Truthy(KvGet(kv, st.mediaKey))
       THEN SetRun(r, [st EXCEPT !.pc = "putDupFinal"])
       ELSE SetRun(r, [st EXCEPT !.seen = @ \cup {st.mediaKey}, !.pc = "moveDelete"])
    /\ UNCHANGED <<posts, kv, delivered, sent, feed, started>>

\* skip:kv-media-final: KV.put(key, '0'); continue
PutDupFinal(r) ==
    /\ At(r, "putDupFinal")
    /\ kv' = KvPut(kv, CurKey(r), "0", Ttl)
    /\ SetRun(r, Continue(run[r]))
    /\ UNCHANGED <<posts, delivered, sent, feed, started>>

\* reserve:move, KV.delete(rawMediaKey)
MoveDelete(r) ==
    /\ At(r, "moveDelete")
    /\ kv' = KvDelete(kv, run[r].rawMediaKey)
    /\ SetRun(r, [run[r] EXCEPT !.pc = "movePut"])
    /\ UNCHANGED <<posts, delivered, sent, feed, started>>

\* reserve:move, KV.put(mediaKey, 'pending')
MovePut(r) ==
    /\ At(r, "movePut")
    /\ kv' = KvPut(kv, run[r].mediaKey, "pending", Ttl)
    /\ SetRun(r, [run[r] EXCEPT !.pc = "ai"])
    /\ UNCHANGED <<posts, delivered, sent, feed, started>>

\* a pipeline without the image branch: an image goes to the dispatcher
AiRunNoPhoto(r) ==
    /\ At(r, "ai")
    /\ LET st == [run[r] EXCEPT !.link = run[r].videoUrl]
           u == st.videoUrl
       IN  IF isVideoUrl(u) /\ ~isTrustedDomain(u)
           THEN SetRun(r, [st EXCEPT !.pc = "validate2"])
           ELSE SetRun(r, AfterValidation([st EXCEPT !.isValidVideo = isVideoUrl(u)]))
    /\ UNCHANGED <<posts, kv, delivered, sent, feed, started>>

\* env.AI.run and the message; then sendPhoto for an image, the validation
\* for a video URL of a domain that is not trusted, or the dispatcher
AiRun(r) ==
    /\ At(r, "ai")
    /\ LET st == [run[r] EXCEPT !.link = run[r].videoUrl]
           u == st.videoUrl
       IN  IF isDirectImageUrl(u) THEN SetRun(r, [st EXCEPT !.pc = "sendPhoto"])
           ELSE IF isVideoUrl(u) /\ ~isTrustedDomain(u)
           THEN SetRun(r, [st EXCEPT !.pc = "validate2"])
           ELSE SetRun(r, AfterValidation([st EXCEPT !.isValidVideo = isVideoUrl(u)]))
    /\ UNCHANGED <<posts, kv, delivered, sent, feed, started>>

\* env.AI.run throws: the catch of the post releases both keys
AiThrows(r) ==
    /\ At(r, "ai")
    /\ SetRun(r, [run[r] EXCEPT !.pc = "failDelMedia"])
    /\ UNCHANGED <<posts, kv, delivered, sent, feed, started>>

\* isValidVideo = await validateVideoUrl(videoUrl)
ValidateVideo(r) ==
    /\ At(r, "validate2")
    /\ \E isValid \in Validations :
         SetRun(r, AfterValidation([run[r] EXCEPT !.isValidVideo = isValid]))
    /\ UNCHANGED <<posts, kv, delivered, sent, feed, started>>

\* retry:resolve-html, the last attempt resolves the page once more; a new URL
\* replaces videoUrl and is validated again
ResolveLastAttempt(r) ==
    /\ At(r, "resolve2")
    /\ \E res \in Resolutions :
         IF res.threw
         THEN SetRun(r, [run[r] EXCEPT !.pc = "failDelMedia"])
         ELSE IF Resolved(run[r].videoUrl, res.url)
              THEN LET st == [run[r] EXCEPT !.videoUrl = res.url] IN
                   IF isTrustedDomain(res.url)
                   THEN SetRun(r, Dispatch([st EXCEPT !.isValidVideo = TRUE]))
                   ELSE IF isVideoUrl(res.url)
                   THEN SetRun(r, [st EXCEPT !.pc = "validate3"])
                   ELSE SetRun(r, Dispatch(st))
              ELSE SetRun(r, Dispatch(run[r]))
    /\ UNCHANGED <<posts, kv, delivered, sent, feed, started>>

\* retry:revalidated
Revalidate(r) ==
    /\ At(r, "validate3")
    /\ \E isValid \in Validations :
         SetRun(r, Dispatch([run[r] EXCEPT !.isValidVideo = isValid]))
    /\ UNCHANGED <<posts, kv, delivered, sent, feed, started>>

\* the answers of the Telegram API: success, a non-success status, a throw
SinkAnswers == {"ok", "fail", "throw"}

\* a Telegram call: logged, then committed on success and released otherwise
Send(r, verb, media, noAudio) ==
    /\ At(r, verb)
    /\ \E answer \in SinkAnswers :
         /\ sent' = [sent EXCEPT ![r] = Append(@, Call(r, verb, media, noAudio, answer))]
         /\ IF answer = "ok"
            THEN /\ delivered' = delivered (+) SetToBag({Call(r, verb, media, noAudio, answer)})
                 /\ SetRun(r, [run[r] EXCEPT !.pc = "commitPost"])
            ELSE /\ delivered' = delivered
                 /\ SetRun(r, [run[r] EXCEPT !.pc = "failDelMedia"])
    /\ UNCHANGED <<posts, kv, feed, started>>

SendPhoto(r) == Send(r, "sendPhoto", run[r].videoUrl, FALSE)

\* a sendVideo that falls back to the text message when Telegram rejects it
SendVideoThenText(r) ==
    /\ At(r, "sendVideo")
    /\ \E answer \in SinkAnswers :
         LET c == Call(r, "sendVideo", run[r].videoUrl, IncludesDash(run[r].videoUrl), answer)
         IN  /\ sent' = [sent EXCEPT ![r] = Append(@, c)]
             /\ IF answer = "ok"
                THEN /\ delivered' = delivered (+) SetToBag({c})
                     /\ SetRun(r, [run[r] EXCEPT !.pc = "commitPost"])
                ELSE /\ delivered' = delivered
                     /\ SetRun(r, [run[r] EXCEPT !.pc = "sendMessage"])
    /\ UNCHANGED <<posts, kv, feed, started>>

SendVideo(r) ==
    Send(r, "sendVideo", run[r].videoUrl, IncludesDash(run[r].videoUrl))

SendMessage(r) == Send(r, "sendMessage", NoUrl, FALSE)

\* KV.delete(mediaKey) after a failure
ReleaseMedia(r) ==
    /\ At(r, "failDelMedia")
    /\ kv' = KvDelete(kv, run[r].mediaKey)
    /\ SetRun(r, [run[r] EXCEPT !.pc = "failDelPost"])
    /\ UNCHANGED <<posts, delivered, sent, feed, started>>

\* a failure path that leaves the post key as it is
ReleasePostKeep(r) ==
    /\ At(r, "failDelPost")
    /\ SetRun(r, Continue(run[r]))
    /\ UNCHANGED <<posts, kv, delivered, sent, feed, started>>

\* KV.delete(key) after a failure; continue
ReleasePost(r) ==
    /\ At(r, "failDelPost")
    /\ kv' = KvDelete(kv, CurKey(r))
    /\ SetRun(r, Continue(run[r]))
    /\ UNCHANGED <<posts, delivered, sent, feed, started>>

\* a commit that leaves the post key 'pending'
CommitPostSkip(r) ==
    /\ At(r, "commitPost")
    /\ SetRun(r, [run[r] EXCEPT !.pc = "commitMedia"])
    /\ UNCHANGED <<posts, kv, delivered, sent, feed, started>>

\* KV.put(key, '0') after a delivery
CommitPost(r) ==
    /\ At(r, "commitPost")
    /\ kv' = KvPut(kv, CurKey(r), "0", Ttl)
    /\ SetRun(r, [run[r] EXCEPT !.pc = "commitMedia"])
    /\ UNCHANGED <<posts, delivered, sent, feed, started>>

\* a commit that leaves the media key 'pending'
CommitMediaSkip(r) ==
    /\ At(r, "commitMedia")
    /\ SetRun(r, Continue(run[r]))
    /\ UNCHANGED <<posts, kv, delivered, sent, feed, started>>

\* KV.put(mediaKey, '1') after a delivery; the next post
CommitMedia(r) ==
    /\ At(r, "commitMedia")
    /\ kv' = KvPut(kv, run[r].mediaKey, "1", Ttl)
    /\ SetRun(r, Continue(run[r]))
    /\ UNCHANGED <<posts, delivered, sent, feed, started>>

\* a retry that writes the count it has read
RetryPutSame(r) ==
    /\ At(r, "retryPut")
    /\ kv' = KvPut(kv, CurKey(r), NumToString(run[r].retriesLeft), Ttl)
    /\ SetRun(r, [run[r] EXCEPT !.pc = "retryDelete"])
    /\ UNCHANGED <<posts, delivered, sent, feed, started>>

\* KV.put(key, retriesLeft - 1) of a post that is not sent this time
RetryPut(r) ==
    /\ At(r, "retryPut")
    /\ kv' = KvPut(kv, CurKey(r), NumToString(run[r].retriesLeft - 1), Ttl)
    /\ SetRun(r, [run[r] EXCEPT !.pc = "retryDelete"])
    /\ UNCHANGED <<posts, delivered, sent, feed, started>>

\* a retry that leaves the media key in the store
RetryDeleteKeep(r) ==
    /\ At(r, "retryDelete")
    /\ SetRun(r, Continue(run[r]))
    /\ UNCHANGED <<posts, kv, delivered, sent, feed, started>>

\* KV.delete(mediaKey) of a post that is not sent this time; continue
RetryDelete(r) ==
    /\ At(r, "retryDelete")
    /\ kv' = KvDelete(kv, run[r].mediaKey)
    /\ SetRun(r, Continue(run[r]))
    /\ UNCHANGED <<posts, delivered, sent, feed, started>>

\* a write of the retry count that does not decrement it
PutNoMediaSame(r) ==
    /\ At(r, "putNoMedia")
    /\ kv' = KvPut(kv, CurKey(r), NumToString(run[r].retriesLeft), Ttl)
    /\ SetRun(r, Continue(run[r]))
    /\ UNCHANGED <<posts, delivered, sent, feed, started>>

\* a pipeline that reserves a post without media instead of counting it down
PutNoMediaPending(r) ==
    /\ At(r, "putNoMedia")
    /\ kv' = KvPut(kv, CurKey(r), "pending", Ttl)
    /\ SetRun(r, Continue(run[r]))
    /\ UNCHANGED <<posts, delivered, sent, feed, started>>

\* no media URL: KV.put(key, retriesLeft - 1)
PutNoMedia(r) ==
    /\ At(r, "putNoMedia")
    /\ kv' = KvPut(kv, CurKey(r), NumToString(run[r].retriesLeft - 1), Ttl)
    /\ SetRun(r, Continue(run[r]))
    /\ UNCHANGED <<posts, delivered, sent, feed, started>>

\* one step of the invocation r, after its start
Step(r) ==
    \/ FetchFails(r) \/ FetchRedditNew(r) \/ Finish(r)
    \/ GetPostKey(r) \/ GetRawMedia(r) \/ PutDup(r)
    \/ ReservePost(r) \/ ReserveMedia(r)
    \/ ValidateUntrustedMp4(r) \/ ResolveUrl(r)
    \/ GetFinalMedia(r) \/ PutDupFinal(r) \/ MoveDelete(r) \/ MovePut(r)
    \/ AiRun(r) \/ AiThrows(r) \/ ValidateVideo(r)
    \/ ResolveLastAttempt(r) \/ Revalidate(r)
    \/ SendPhoto(r) \/ SendVideo(r) \/ SendMessage(r)
    \/ ReleaseMedia(r) \/ ReleasePost(r) \/ CommitPost(r) \/ CommitMedia(r)
    \/ RetryPut(r) \/ RetryDelete(r) \/ PutNoMedia(r)

\* invocations one after the other
Next ==
    /\ FeedChanges \/ \E r \in Runs : Scheduled(r) \/ Step(r)
    /\ UNCHANGED unit

Spec == Init /\ [][Next]_vars

\* the cron trigger goes on firing, and an invocation that has started goes on
\* to its return
SpecFair == Spec /\ WF_vars(Next)

\* invocations one after the other over one listing of a single post, then two
\* invocations that overlap over that listing
NextOverlapping ==
    /\ \E r \in Runs : Scheduled(r) \/ ScheduledOverlapping(r) \/ Step(r)
    /\ UNCHANGED unit

InitOverlapping ==
    /\ Init
    /\ feed \in {<<i>> : i \in 1..Len(posts)}

SpecOverlapping == InitOverlapping /\ [][NextOverlapping]_vars

(***************************************************************************)
(* Invocations one after the other, over a store whose records expire.     *)
(***************************************************************************)
\* the expirationTtl of the record of a terminal post key runs out: KV.get no
\* longer returns it.  A week lies between the write and that moment, and no
\* invocation lasts as long: the record runs out between two invocations
Expire ==
    /\ \A q \in Runs : At(q, "idle")
    /\ \E k \in DOMAIN kv :
         /\ k.ns = "post"
         /\ kv[k].val = "0"
         /\ kv[k].ttl > 0
         /\ kv' = [kv EXCEPT ![k].ttl = 0]
    /\ UNCHANGED <<posts, run, delivered, sent, feed, started>>

NextExpiry ==
    /\ FeedChanges \/ Expire \/ \E r \in Runs : Scheduled(r) \/ Step(r)
    /\ UNCHANGED unit

\* the scenarios with a post without media, a page that the browser resolves,
\* and two posts of the same media
InitExpiry ==
    /\ Init
    /\ posts \in {<<PNone, PImage>>, <<PPage, PVideo>>, <<PUntrusted, PUntrustedUpper>>}

SpecExpiry == InitExpiry /\ [][NextExpiry]_vars

(***************************************************************************)
(* validateVideoUrl called on its own, on every probe.                     *)
(***************************************************************************)
InitValidate ==
    /\ posts = <<PNone, PImage>>
    /\ kv = <<>>
    /\ run = [r \in Runs |-> Idle]
    /\ delivered = EmptyBag
    /\ sent = [r \in Runs |-> <<>>]
    /\ feed = <<>>
    /\ started = {}
    /\ \E p \in Probes :
         unit = [fn |-> "validateVideoUrl", done |-> FALSE, probe |-> p, result |-> FALSE]

ValidateCall ==
    /\ unit.fn = "validateVideoUrl"
    /\ ~unit.done
    /\ unit' = [unit EXCEPT !.done = TRUE, !.result = validateVideoUrl(unit.probe)]
    /\ UNCHANGED <<posts, kv, run, delivered, sent, feed, started>>

SpecValidate == InitValidate /\ [][ValidateCall]_vars

(***************************************************************************)
(* canonicalizeUrl called on its own, and again on its result.             *)
(***************************************************************************)
\* the strings: unparsable ones (no scheme, or https without host), https
\* URLs, and URLs of a scheme that is not special, with an authority, with a
\* path only, or with an opaque path
RawUrls ==
    {u \in [scheme : {"", "https", "x"}, auth : BOOLEAN,
            host : {"", "cdn.example", "CDN.Example"},
            path : {"", "/", "/watch", "/watch/", "a", "a/"},
            ext : {"", ".mp4"}, query : {"", "?x=1"}] :
        /\ ~u.auth => u.host = ""
        /\ u.scheme = "" => ~u.auth
        /\ u.scheme = "https"
             => /\ u.auth
                /\ u.path \notin {"a", "a/"}
                /\ u.host = "" => u.path = "" /\ u.ext = "" /\ u.query = ""
                /\ u.ext # "" => u.path # ""
        /\ u.scheme = "x"
             => /\ u.ext = ""
                /\ u.auth => u.path \notin {"a", "a/"}
                /\ ~u.auth => u.path # "/"}

InitCanonicalize ==
    /\ posts = <<PNone, PImage>>
    /\ kv = <<>>
    /\ run = [r \in Runs |-> Idle]
    /\ delivered = EmptyBag
    /\ sent = [r \in Runs |-> <<>>]
    /\ feed = <<>>
    /\ started = {}
    /\ \E u \in RawUrls :
         unit = [fn |-> "canonicalizeUrl", done |-> FALSE, input |-> u,
                 once |-> u, twice |-> u]

CanonicalizeCall ==
    /\ unit.fn = "canonicalizeUrl"
    /\ ~unit.done
    /\ unit' = [unit EXCEPT !.done = TRUE,
                            !.once = canonicalizeUrl(unit.input),
                            !.twice = canonicalizeUrl(canonicalizeUrl(unit.input))]
    /\ UNCHANGED <<posts, kv, run, delivered, sent, feed, started>>

SpecCanonicalize == InitCanonicalize /\ [][CanonicalizeCall]_vars

(***************************************************************************)
(* Properties.                                                             *)
(***************************************************************************)
\* the stored value of the post key of post i of the scenario
PostVal(i) == KvGet(kv, derivePostKey(posts[i]))

\* run r works on a post: it has read the post key and not yet left the post
Processing(r) == run[r].pc \notin {"idle", "fetch", "loop"}

\* the calls run r has made for its current post in this invocation
CallsForCurrent(r) ==
    {k \in DOMAIN sent[r] : sent[r][k].post = run[r].batch[run[r].i]}

\* the URL a delivery carries: the photo or video of the payload, or the
\* source link of a text message
Carried(c) == IF c.media # NoUrl THEN c.media ELSE c.link

\* C1: two overlapping invocations over the same listing call a delivery verb
\* at most once for each canonical media key.
C1_OncePerMediaKey ==
    \A r1 \in started, r2 \in started :
        \A k1 \in DOMAIN sent[r1], k2 \in DOMAIN sent[r2] :
            (r1 # r2 \/ k1 # k2)
                => MediaKey(sent[r1][k1].link) # MediaKey(sent[r2][k2].link)

\* C2: with invocations one after the other, a post is delivered at most once;
\* after the delivery its post key is '0' (once the commit is written), and a
\* post whose key is '0' is skipped: no run works on it.
C2_DeliveredOncePerPost ==
    /\ \A c \in BagToSet(delivered) :
         /\ CopiesIn(c, delivered) = 1
         /\ \A c2 \in BagToSet(delivered) : c2.post = c.post => c2 = c
         /\ \/ PostVal(c.post) = "0"
            \/ \E r \in Runs : run[r].pc = "commitPost" /\ run[r].batch[run[r].i] = c.post
    /\ \A r \in Runs :
         (Processing(r) /\ run[r].pc # "commitMedia") => KvGet(kv, CurKey(r)) # "0"

\* a later invocation stands at a delivered post, whose key is '0'
C2_Witness ==
    \E c \in BagToSet(delivered) :
        /\ run[1].pc = "loop"
        /\ run[1].i <= Len(run[1].batch)
        /\ run[1].batch[run[1].i] = c.post
        /\ sent[1] = <<>>
        /\ PostVal(c.post) = "0"

\* C3: with invocations one after the other, no two successful deliveries
\* carry media URLs of the same canonical media key.
C3_NoRepostOfMedia ==
    \A c1 \in BagToSet(delivered) :
        /\ CopiesIn(c1, delivered) = 1
        /\ \A c2 \in BagToSet(delivered) :
             c1 # c2 => MediaKey(Carried(c1)) # MediaKey(Carried(c2))

\* the retry count a stored post value stands for: 5 when the key is absent
Count(v) == IF v = Absent THEN 5 ELSE NumberOf(v)

\* a post for which the extraction yields no media URL
NoMedia(d) == VideoUrlOf(d) = NoUrl

\* C4: for a post without media URL, every invocation that meets it only
\* decrements: it goes straight to the write of the retry count, which is the
\* stored count (5 at first) minus one; every write of its post key lowers the
\* stored count by one, and a key that holds '0' is not written again.
C4_RetryCountsDown ==
    /\ [](\A r \in Runs :
            (Processing(r) /\ NoMedia(Cur(r)))
                => /\ run[r].pc = "putNoMedia"
                   /\ run[r].retriesLeft = Count(KvGet(kv, CurKey(r)))
                   /\ run[r].retriesLeft >= 1
                   /\ CallsForCurrent(r) = {})
    /\ [][\A i \in DOMAIN posts :
            (NoMedia(posts[i]) /\ PostVal(i)' # PostVal(i))
                => /\ PostVal(i) # "0"
                   /\ PostVal(i)' = NumToString(Count(PostVal(i)) - 1)]_vars

\* a post without media has been counted down to '0' and is met again
C4_Witness ==
    /\ run[1].pc = "loop"
    /\ run[1].i <= Len(run[1].batch)
    /\ NoMedia(Cur(1))
    /\ KvGet(kv, CurKey(1)) = "0"

\* the dispatcher would neither send the photo nor the video of this state
Rejected(st) ==
    /\ st.videoUrl # NoUrl
    /\ ~isDirectImageUrl(st.videoUrl)
    /\ ~(shouldSendVideo(st.videoUrl, st.isValidVideo, st.retriesLeft)
         /\ isTrustedSource(st.videoUrl))

\* C5: a post worked on with retry count 1 whose media URL is rejected
\* (untrusted, or not valid) is never put back for a retry and never sent as
\* photo or video: the dispatcher sends it as one text message that carries
\* the link, the only call made for it in that invocation.  The key of a post
\* with a media URL becomes '0' only after a delivery (or as a duplicate of
\* media already taken), never by a decrement.
C5_LastAttemptSendsText ==
    /\ [](\A r \in Runs :
            (run[r].retriesLeft = 1 /\ Rejected(run[r]))
                => /\ run[r].pc \notin {"retryPut", "retryDelete", "sendVideo", "sendPhoto"}
                   /\ run[r].pc = "sendMessage" => CallsForCurrent(r) = {}
                   /\ run[r].pc \in {"commitPost", "commitMedia"}
                        => /\ Cardinality(CallsForCurrent(r)) = 1
                           /\ \A k \in CallsForCurrent(r) :
                                /\ sent[r][k].verb = "sendMessage"
                                /\ sent[r][k].link # NoUrl
                                /\ sent[r][k].link = run[r].link
                                /\ sent[r][k].retries = 1)
    /\ [][\A i \in DOMAIN posts :
            (~NoMedia(posts[i]) /\ PostVal(i) # "0" /\ PostVal(i)' = "0")
                => \E r \in Runs :
                     /\ Processing(r)
                     /\ run[r].batch[run[r].i] = i
                     /\ \/ run[r].pc \in {"putDup", "putDupFinal"}
                        \/ /\ run[r].pc = "commitPost"
                           /\ \E k \in CallsForCurrent(r) : sent[r][k].answer = "ok"]_vars

\* an untrusted .mp4 URL on its last attempt has been sent as a text message
C5_Witness ==
    /\ run[1].pc = "commitPost"
    /\ run[1].retriesLeft = 1
    /\ Rejected(run[1])
    /\ ~isTrustedSource(run[1].videoUrl)
    /\ IncludesMp4(run[1].videoUrl)
    /\ \E k \in CallsForCurrent(1) : sent[1][k].verb = "sendMessage"

\* C6: a final media URL of kind hls (.m3u8) is never sent with sendVideo.
C6_HlsNeverSentAsVideo ==
    \A r \in Runs : run[r].pc = "sendVideo" => ~IncludesM3u8(run[r].videoUrl)

\* a call of validateVideoUrl has returned
Validated == unit.fn = "validateVideoUrl" /\ unit.done

\* C7: validateVideoUrl fails closed: when the HEAD probe or the ranged GET
\* probe throws or answers with a non-success status, or the read of the body
\* throws, the result is false.
C7_ValidateFailsClosed ==
    (/\ Validated
     /\ \/ unit.probe.head = "throw"
        \/ ~ResponseOk(unit.probe.head)
        \/ unit.probe.get = "throw"
        \/ ~ResponseOk(unit.probe.get)
        \/ unit.probe.body = "throw")
        => unit.result = FALSE

\* the HEAD probe announced a video, the ranged GET threw: the result is false
C7_Witness ==
    /\ Validated
    /\ unit.probe.head = "200"
    /\ unit.probe.ctype = "video/mp4"
    /\ unit.probe.get = "throw"
    /\ unit.result = FALSE

\* a post whose media is a DASH (video-only) .mp4 of a trusted source, with no
\* muxed alternative
DashOnly(d) == mediaKind(d) = "dash" /\ isTrustedSource(VideoUrlOf(d))

\* C8: a trusted DASH .mp4 with no muxed alternative needs neither browser nor
\* validation and is never sent as photo or text; while its retry count is
\* above 1 the dispatcher only writes the count minus one, with no delivery;
\* at count 1 it is sent with sendVideo and the no-audio warning.  The stored
\* count goes down by one at each write, so that four invocations take it from
\* 5 (no key) to 1 and the fifth sends.
C8_DashSentOnLastAttempt ==
    /\ [](\A r \in Runs :
            (Processing(r) /\ DashOnly(Cur(r)))
                => /\ run[r].pc \notin {"putNoMedia", "validate1", "validate2", "validate3",
                                        "resolve1", "resolve2", "sendPhoto", "sendMessage"}
                   /\ run[r].retriesLeft = Count(run[r].existingKeyVal)
                   /\ run[r].pc \in {"retryPut", "retryDelete"}
                        => run[r].retriesLeft > 1 /\ CallsForCurrent(r) = {}
                   /\ run[r].pc = "retryDelete"
                        => KvGet(kv, CurKey(r)) = NumToString(run[r].retriesLeft - 1)
                   /\ run[r].pc = "sendVideo" => run[r].retriesLeft = 1
                   /\ \A k \in CallsForCurrent(r) :
                        /\ sent[r][k].verb = "sendVideo"
                        /\ sent[r][k].noAudio
                        /\ sent[r][k].retries = 1
                        /\ sent[r][k].media = VideoUrlOf(Cur(r)))
    /\ [][\A i \in DOMAIN posts :
            (DashOnly(posts[i]) /\ PostVal(i)' # PostVal(i)
                /\ PostVal(i)' \in {"1", "2", "3", "4", "5"})
                => /\ PostVal(i) = "pending"
                   /\ \E r \in Runs :
                        /\ run[r].pc = "retryPut"
                        /\ run[r].batch[run[r].i] = i
                        /\ PostVal(i)' = NumToString(Count(run[r].existingKeyVal) - 1)]_vars

\* the DASH post was counted down to 1 and is now sent with the warning
C8_Witness ==
    /\ run[1].pc = "commitPost"
    /\ DashOnly(Cur(1))
    /\ run[1].existingKeyVal = "1"
    /\ \E k \in CallsForCurrent(1) :
         sent[1][k].verb = "sendVideo" /\ sent[1][k].noAudio /\ sent[1][k].answer = "ok"

\* the batch of run r holds two posts whose media URLs have the same canonical
\* media key, and the first of them was not skipped
TwoWithSameMedia(r) ==
    /\ Len(run[r].batch) = 2
    /\ MediaKey(VideoUrlOf(posts[run[r].batch[1]])) = MediaKey(VideoUrlOf(posts[run[r].batch[2]]))
    /\ 1 \notin run[r].skipped

\* C9: of two posts of a batch with the same canonical media key, the second
\* goes no further than the duplicate check: no reservation, browser,
\* validation or Telegram call is made for it, and when the invocation has met
\* both, the key of the second is '0'.
C9_SecondOfSameMediaSkipped ==
    \A r \in Runs :
        TwoWithSameMedia(r)
            => /\ (run[r].i = 2 /\ Processing(r)) => run[r].pc \in {"getRawMedia", "putDup"}
               /\ \A k \in DOMAIN sent[r] : sent[r][k].post # run[r].batch[2]
               /\ (run[r].i = 3 /\ 2 \notin run[r].skipped)
                    => KvGet(kv, derivePostKey(posts[run[r].batch[2]])) = "0"

\* the first of two posts whose URLs differ in case and query was delivered,
\* the second was marked '0'
C9_Witness ==
    /\ TwoWithSameMedia(1)
    /\ run[1].i = 3
    /\ run[1].skipped = {}
    /\ VideoUrlOf(posts[run[1].batch[1]]) # VideoUrlOf(posts[run[1].batch[2]])
    /\ \E k \in DOMAIN sent[1] : sent[1][k].post = run[1].batch[1] /\ sent[1][k].answer = "ok"
    /\ KvGet(kv, derivePostKey(posts[run[1].batch[2]])) = "0"

\* the last Telegram call of run r failed, and r is back at the head of the
\* loop, just after the post of that call
JustFailed(r) ==
    /\ run[r].pc = "loop"
    /\ run[r].i > 1
    /\ sent[r] # <<>>
    /\ sent[r][Len(sent[r])].post = run[r].batch[run[r].i - 1]
    /\ sent[r][Len(sent[r])].answer # "ok"

\* C10: a Telegram call that fails (a non-success answer or a throw) is
\* followed by the release of both keys only: when the invocation moves to the
\* next post, the post key and the media key of the failed post are absent from
\* the store, so the post key is not '0'.
C10_FailureReleasesKeys ==
    \A r \in Runs :
        /\ (Processing(r) /\ \E k \in CallsForCurrent(r) : sent[r][k].answer # "ok")
                => run[r].pc \in {"failDelMedia", "failDelPost"}
        /\ JustFailed(r)
                => LET c == sent[r][Len(sent[r])] IN
                   /\ PostVal(c.post) = Absent
                   /\ KvGet(kv, MediaKey(c.link)) = Absent

\* sendVideo got a non-success answer and the invocation went on
C10_Witness ==
    /\ JustFailed(1)
    /\ sent[1][Len(sent[1])].verb = "sendVideo"
    /\ sent[1][Len(sent[1])].answer = "fail"
    /\ PostVal(sent[1][Len(sent[1])].post) = Absent

\* C11: an error raised while a post is processed is contained to that post:
\* once the listing is fetched, an invocation returns only from the head of
\* the loop, when every post of the batch has been met.
C11_ErrorContainedToPost ==
    [][\A r \in Runs :
        (run[r].pc \notin {"idle", "fetch"} /\ run'[r].pc = "idle")
            => run[r].pc = "loop" /\ run[r].i > Len(run[r].batch)]_vars

\* C12: an invocation whose feed fetch fails goes from its start straight to
\* its return: neither step writes the store or calls Telegram, no post is met
\* (so no browser session is opened), and the store is what it was when the
\* trigger fired.
C12_FetchFailureChangesNothing ==
    [][\A r \in Runs :
        (/\ run'[r] # run[r]
         /\ run[r].pc \in {"idle", "fetch"}
         /\ run'[r].pc \in {"idle", "fetch"})
            => /\ kv' = kv
               /\ delivered' = delivered
               /\ sent'[r] = <<>>
               /\ run'[r].batch = <<>>]_vars

\* a fetch is awaited over a store that holds a committed post and a
\* reservation; its failure is the step that follows
C12_Witness ==
    /\ run[1].pc = "fetch"
    /\ \E k \in DOMAIN kv : kv[k].val = "0"
    /\ \E k \in DOMAIN kv : kv[k].val = "pending"

\* C13: canonicalizeUrl is idempotent: applied to its own result it returns
\* that result, for the strings that parse as URLs and for those that do not.
C13_CanonicalizeIdempotent ==
    (unit.fn = "canonicalizeUrl" /\ unit.done) => unit.twice = unit.once

\* run r believes it holds the post key of its current post: it has written
\* 'pending' and has not yet replaced or deleted it
HoldsPostKey(r) ==
    run[r].pc \in {"reserveMedia", "validate1", "resolve1", "getFinalMedia",
                   "putDupFinal", "moveDelete", "movePut", "ai", "validate2",
                   "resolve2", "validate3", "sendPhoto", "sendVideo", "sendMessage",
                   "failDelMedia", "failDelPost", "commitPost", "retryPut"}

\* C14: two overlapping runs never both hold the same post key as 'pending'.
C14_OneHolderOfPending ==
    \A r1 \in Runs, r2 \in Runs :
        (r1 # r2 /\ HoldsPostKey(r1) /\ HoldsPostKey(r2)) => CurKey(r1) # CurKey(r2)

\* C15: a run that reads 'pending' or '0' under a post key goes on to the next
\* post in that very step: it writes nothing, calls nothing, and no Telegram
\* call of the invocation is for a post it skipped.
C15_PendingOrDoneSkipped ==
    /\ [](\A r \in Runs : \A i \in run[r].skipped :
            \A k \in DOMAIN sent[r] : sent[r][k].post # run[r].batch[i])
    /\ [][\A r \in Runs :
            (/\ run[r].pc = "loop"
             /\ run[r].i <= Len(run[r].batch)
             /\ run'[r] # run[r]
             /\ KvGet(kv, CurKey(r)) \in {"0", "pending"})
                => /\ run'[r].pc = "loop"
                   /\ run'[r].i = run[r].i + 1
                   /\ run'[r].skipped = run[r].skipped \cup {run[r].i}
                   /\ kv' = kv
                   /\ sent' = sent
                   /\ delivered' = delivered]_vars

\* run 2 has skipped the post that run 1 holds as 'pending' and works on
C15_Witness ==
    /\ 2 \in started
    /\ run[2].skipped = {1}
    /\ HoldsPostKey(1)
    /\ CurKey(1) = derivePostKey(posts[run[2].batch[1]])
    /\ KvGet(kv, CurKey(1)) = "pending"

\* a committed key: a post key that holds '0', a media key that holds '1'
Committed(store, k) ==
    /\ k \in DOMAIN store
    /\ \/ k.ns = "post" /\ store[k].val = "0"
       \/ k.ns = "media" /\ store[k].val = "1"

\* C16: a committed key is neither overwritten with another value nor
\* deleted, whatever the interleaving of overlapping runs.
C16_CommittedKeyImmutable ==
    [][\A k \in DOMAIN kv : Committed(kv, k) => Committed(kv', k)]_vars

\* the record of key k is still in the store and its TTL has run out
Lapsed(k) == k \in DOMAIN kv /\ kv[k].ttl = 0

\* C17 as stated: a post whose retry count reached '0' with no media found is
\* never processed again, also when the TTL of the record that holds the '0'
\* has run out.
C17_NeverProcessedAgain ==
    \A r \in Runs :
        (Processing(r) /\ NoMedia(Cur(r)))
            => ~(CurKey(r) \in DOMAIN kv /\ kv[CurKey(r)].val = "0")

\* C17, amended: a post whose retry count reached '0' with no media found is
\* abandoned for as long as the record lives: a run that reads '0' skips it.
\* Once the TTL of the record has run out the key reads as absent, and the
\* post is processed again with a retry count of 5.
C17_AbandonedUntilExpiry ==
    \A r \in Runs :
        (Processing(r) /\ NoMedia(Cur(r)))
            => /\ run[r].existingKeyVal # "0"
               /\ run[r].existingKeyVal = Absent => run[r].retriesLeft = 5
               /\ (CurKey(r) \in DOMAIN kv /\ kv[CurKey(r)].val = "0") => Lapsed(CurKey(r))

\* the record that holds the '0' of a post without media has run out, and the
\* post is processed again, from 5
C17_Witness ==
    /\ run[1].pc = "putNoMedia"
    /\ Lapsed(CurKey(1))
    /\ kv[CurKey(1)].val = "0"
    /\ run[1].retriesLeft = 5

\* some run works on post i of the scenario
Processed(i) == \E r \in Runs : Processing(r) /\ run[r].batch[run[r].i] = i

\* C18: retries are bounded: with invocations one after the other and no
\* expiry, a post is processed in at most 5 invocations, so that from some
\* invocation on it is never processed again.
C18_RetriesBounded == \A i \in {1, 2} : <>[](~Processed(i))

\* the steps that call validateVideoUrl(videoUrl)
AtValidation(r) == run[r].pc \in {"validate1", "validate2", "validate3"}

\* C19: a media URL of v.redd.it, reddit.com, googlevideo.com or streamain.com
\* is never passed to validateVideoUrl, at no stage of the post's processing.
C19_TrustedNeverValidated ==
    \A r \in Runs :
        AtValidation(r) =>
            /\ ~HostIncludes(run[r].videoUrl.host, "v.redd.it")
            /\ ~HostIncludes(run[r].videoUrl.host, "reddit.com")
            /\ ~HostIncludes(run[r].videoUrl.host, "googlevideo.com")
            /\ ~HostIncludes(run[r].videoUrl.host, "streamain.com")

\* the steps that call getFinalStreamUrl(env, videoUrl)
AtResolver(r) == run[r].pc \in {"resolve1", "resolve2"}

\* C20: the browser resolver is never invoked for an image, for an .mp4 of a
\* trusted source, or for an .m3u8 (hls) reference.
C20_ResolverOnlyWhenNeeded ==
    \A r \in Runs :
        AtResolver(r) =>
            /\ ~isDirectImageUrl(run[r].videoUrl)
            /\ ~(IncludesMp4(run[r].videoUrl) /\ isTrustedSource(run[r].videoUrl))
            /\ ~IncludesM3u8(run[r].videoUrl)

(***************************************************************************)
(* getFinalStreamUrl called on its own, one awaited operation at a time.   *)
(* session is the browser of puppeteer.launch: "none" before the launch,   *)
(* "open" from the launch on, and after the finally block what became of   *)
(* browser.close() in the race with the 3 second timer.  found is          *)
(* finalStreamUrl, outcome how the call ended.                             *)
(***************************************************************************)
\* the results of an awaited browser operation
Awaited == {"ok", "throw"}

\* browser.close() against the timer: it resolves, it rejects, or the timer
\* rejects first
CloseRaces == {"closed", "closeRejected", "closeTimeout"}

InitResolver ==
    /\ posts = <<PPage, PVideo>>
    /\ kv = <<>>
    /\ run = [r \in Runs |-> Idle]
    /\ delivered = EmptyBag
    /\ sent = [r \in Runs |-> <<>>]
    /\ feed = <<>>
    /\ started = {}
    /\ \E pg \in Pages :
         /\ pg.launch = "ok"
         /\ unit = [fn |-> "getFinalStreamUrl", pc |-> "launch", page |-> pg,
                    session |-> "none", found |-> NoUrl, outcome |-> "running"]

ResolverAt(pc) == unit.fn = "getFinalStreamUrl" /\ unit.pc = pc

\* a throw before the try block leaves the function at once
ResolverThrows == [unit EXCEPT !.pc = "done", !.outcome = "threw"]

\* const browser = await puppeteer.launch(env.BROWSER)
Launch ==
    /\ ResolverAt("launch")
    /\ \E a \in Awaited :
         unit' = IF a = "throw" THEN ResolverThrows
                 ELSE [unit EXCEPT !.pc = "newPage", !.session = "open"]
    /\ UNCHANGED <<posts, kv, run, delivered, sent, feed, started>>

\* const page = await browser.newPage()
NewPage ==
    /\ ResolverAt("newPage")
    /\ \E a \in Awaited :
         unit' = IF a = "throw" THEN ResolverThrows
                 ELSE [unit EXCEPT !.pc = "setUserAgent"]
    /\ UNCHANGED <<posts, kv, run, delivered, sent, feed, started>>

\* await page.setUserAgent(...)
SetUserAgent ==
    /\ ResolverAt("setUserAgent")
    /\ \E a \in Awaited :
         unit' = IF a = "throw" THEN ResolverThrows
                 ELSE [unit EXCEPT !.pc = "setRequestInterception"]
    /\ UNCHANGED <<posts, kv, run, delivered, sent, feed, started>>

\* await page.setRequestInterception(true), the first statement of the try: a
\* throw goes to the catch, which returns finalStreamUrl
SetRequestInterception ==
    /\ ResolverAt("setRequestInterception")
    /\ \E a \in Awaited :
         unit' = [unit EXCEPT !.pc = IF a = "throw" THEN "close" ELSE "goto"]
    /\ UNCHANGED <<posts, kv, run, delivered, sent, feed, started>>

\* a navigation that goes on to the wait whatever it has found
GotoThenWait ==
    /\ ResolverAt("goto")
    /\ unit' = [unit EXCEPT !.found = FirstMp4(unit.page.net), !.pc = "waitForRequest"]
    /\ UNCHANGED <<posts, kv, run, delivered, sent, feed, started>>

\* await page.goto(streamUrl): the request and response handlers keep the
\* first URL that isMp4Url accepts; with a URL the function returns, whether
\* goto throws or not
Goto ==
    /\ ResolverAt("goto")
    /\ \E a \in Awaited :
         LET url == FirstMp4(unit.page.net) IN
         unit' = [unit EXCEPT !.found = url,
                              !.pc = IF url # NoUrl THEN "close" ELSE "waitForRequest"]
    /\ UNCHANGED <<posts, kv, run, delivered, sent, feed, started>>

\* await page.waitForRequest(...), a timeout is ignored
WaitForRequest ==
    /\ ResolverAt("waitForRequest")
    /\ LET url == FirstMp4(unit.page.later) IN
       unit' = [unit EXCEPT !.found = url,
                            !.pc = IF url # NoUrl THEN "close" ELSE "evaluateDom"]
    /\ UNCHANGED <<posts, kv, run, delivered, sent, feed, started>>

\* await page.evaluate(...) for the video and source elements
EvaluateDom ==
    /\ ResolverAt("evaluateDom")
    /\ \E a \in Awaited :
         LET url == IF a = "throw" THEN NoUrl ELSE FirstMp4(unit.page.dom) IN
         unit' = [unit EXCEPT !.found = url,
                              !.pc = IF url # NoUrl THEN "close" ELSE "evaluatePerf"]
    /\ UNCHANGED <<posts, kv, run, delivered, sent, feed, started>>

\* await page.evaluate(...) for the resource-timing entries
EvaluatePerf ==
    /\ ResolverAt("evaluatePerf")
    /\ \E a \in Awaited :
         LET url == IF a = "throw" THEN NoUrl ELSE FirstMp4(unit.page.perf) IN
         unit' = [unit EXCEPT !.found = url, !.pc = "close"]
    /\ UNCHANGED <<posts, kv, run, delivered, sent, feed, started>>

\* finally: Promise.race([browser.close(), the 3000 ms timer]), any rejection
\* is caught; then the return of the try or of the catch takes effect
CloseBrowser ==
    /\ ResolverAt("close")
    /\ \E c \in CloseRaces :
         unit' = [unit EXCEPT !.pc = "done", !.session = c, !.outcome = "returned"]
    /\ UNCHANGED <<posts, kv, run, delivered, sent, feed, started>>

NextResolver ==
    \/ Launch
    \/ NewPage
    \/ SetUserAgent
    \/ SetRequestInterception
    \/ Goto
    \/ WaitForRequest
    \/ EvaluateDom
    \/ EvaluatePerf
    \/ CloseBrowser

SpecResolver == InitResolver /\ [][NextResolver]_vars

\* the call of getFinalStreamUrl has returned or thrown
ResolverDone == ResolverAt("done")

\* C21: every browser session that getFinalStreamUrl launched has had its
\* close attempted when the function returns or throws.
C21_SessionAlwaysClosed ==
    ResolverDone /\ unit.session # "none" => unit.session \in CloseRaces

(***************************************************************************)
(* extractBestMediaUrl called on its own, over every combination of        *)
(* present and absent fields of a post.  Each field has a URL of its own,  *)
(* so that the result names the field it was taken from.                   *)
(***************************************************************************)
\* either nothing, or the URL u
Maybe(u) == {NoUrl, u}

ExtractInputs ==
    {Post("t3_any", "Media", fb, sc, hls, mp4, gif, gal, src, ov, url) :
        fb \in Maybe(Url("v.redd.it", "/DASH_480", ".mp4", "")),
        sc \in Maybe(Url("v.redd.it", "/clip", ".mp4", "")),
        hls \in Maybe(Url("v.redd.it", "/HLSPlaylist", ".m3u8", "")),
        mp4 \in Maybe(Url("preview.redd.it", "/pic", ".mp4", "")),
        gif \in Maybe(Url("preview.redd.it", "/pic", ".gif", "")),
        gal \in {<<>>, <<Url("i.redd.it", "/pic", ".jpg", "")>>,
                 <<NoUrl, Url("i.redd.it", "/pic", ".jpg", "")>>},
        src \in Maybe(Url("preview.redd.it", "/pic", ".jpg", "")),
        ov \in Maybe(Url("site.example", "/watch", "", "")),
        url \in {Url("reddit.example", "/comments", "", ""),
                 Url("reddit.example", "/pic", ".png", "")}}

InitExtract ==
    /\ posts = <<PNone, PImage>>
    /\ kv = <<>>
    /\ run = [r \in Runs |-> Idle]
    /\ delivered = EmptyBag
    /\ sent = [r \in Runs |-> <<>>]
    /\ feed = <<>>
    /\ started = {}
    /\ \E d \in ExtractInputs :
         unit = [fn |-> "extractBestMediaUrl", done |-> FALSE, d |-> d, result |-> NoUrl]

ExtractCall ==
    /\ unit.fn = "extractBestMediaUrl"
    /\ ~unit.done
    /\ unit' = [unit EXCEPT !.done = TRUE, !.result = extractBestMediaUrl(unit.d)]
    /\ UNCHANGED <<posts, kv, run, delivered, sent, feed, started>>

SpecExtract == InitExtract /\ [][ExtractCall]_vars

Extracted == unit.fn = "extractBestMediaUrl" /\ unit.done

\* result is the first candidate of c that is present, NoUrl if none is
FirstPresentIs(c, result) ==
    /\ \A i \in DOMAIN c :
         (c[i] # NoUrl /\ \A j \in 1..(i - 1) : c[j] = NoUrl) => result = c[i]
    /\ (\A i \in DOMAIN c : c[i] = NoUrl) => result = NoUrl

\* C22 as stated: the order is the native video, the gallery, the preview
\* variants (mp4, gif, static source), the overridden destination, the post's
\* own URL with a media suffix; null if none is present.
C22_PriorityAsStated ==
    Extracted =>
        FirstPresentIs(<<unit.d.fallback_url, unit.d.scraper_media_url, unit.d.hls_url,
                         FirstUrl(unit.d.gallery),
                         unit.d.preview_mp4, unit.d.preview_gif, unit.d.preview_source,
                         unit.d.url_overridden_by_dest,
                         IF HasMediaSuffix(unit.d.url) THEN unit.d.url ELSE NoUrl>>,
                       unit.result)

\* C22, amended: the gallery comes after the mp4 and gif variants of the
\* preview and before its static source; the rest of the order is as stated.
C22_PriorityOrder ==
    Extracted =>
        FirstPresentIs(<<unit.d.fallback_url, unit.d.scraper_media_url, unit.d.hls_url,
                         unit.d.preview_mp4, unit.d.preview_gif,
                         FirstUrl(unit.d.gallery),
                         unit.d.preview_source,
                         unit.d.url_overridden_by_dest,
                         IF HasMediaSuffix(unit.d.url) THEN unit.d.url ELSE NoUrl>>,
                       unit.result)

\* a post with a gallery and a preview mp4 variant, and no native video
C22_Witness ==
    /\ Extracted
    /\ unit.d.fallback_url = NoUrl /\ unit.d.scraper_media_url = NoUrl
    /\ unit.d.hls_url = NoUrl
    /\ FirstUrl(unit.d.gallery) # NoUrl
    /\ unit.d.preview_mp4 # NoUrl
    /\ unit.result = unit.d.preview_mp4

\* C23: sendVideo is called only for a video URL (.mp4 or videoplayback) that
\* counts as valid, comes from a trusted source and is either not DASH or at
\* retry count 1 or less; the caption carries the no-audio warning exactly
\* when the URL sent is DASH.
C23_SendVideoOnlyWhenFit ==
    \A r \in Runs :
        /\ run[r].pc = "sendVideo"
             => /\ isVideoUrl(run[r].videoUrl)
                /\ run[r].isValidVideo
                /\ isTrustedSource(run[r].videoUrl)
                /\ ~IncludesDash(run[r].videoUrl) \/ run[r].retriesLeft <= 1
        /\ \A k \in DOMAIN sent[r] :
             sent[r][k].verb = "sendVideo"
                => /\ isVideoUrl(sent[r][k].media)
                   /\ isTrustedSource(sent[r][k].media)
                   /\ ~IncludesDash(sent[r][k].media) \/ sent[r][k].retries <= 1
                   /\ sent[r][k].noAudio <=> IncludesDash(sent[r][k].media)

\* a DASH video and a video that is not DASH have both been sent with sendVideo
C23_Witness ==
    /\ \E c \in BagToSet(delivered) :
         c.verb = "sendVideo" /\ c.noAudio /\ IncludesDash(c.media)
    /\ \E c \in BagToSet(delivered) :
         c.verb = "sendVideo" /\ ~c.noAudio /\ ~IncludesDash(c.media)

\* the video URL of run r's post is valid but of an untrusted source, and the
\* retry count is above 1
ValidUntrusted(r) ==
    /\ Processing(r)
    /\ isVideoUrl(run[r].videoUrl)
    /\ run[r].isValidVideo
    /\ ~isTrustedSource(run[r].videoUrl)
    /\ run[r].retriesLeft > 1

\* C24: for a valid video URL of an untrusted source at a retry count above 1
\* no sink verb is called; the post key is set to the count minus one and the
\* media key is deleted, so that the post is left without 'pending' records.
\* Stated for invocations that run one after the other.
C24_UntrustedPutBack ==
    /\ [](\A r \in Runs :
            ValidUntrusted(r)
                => /\ run[r].pc \in {"retryPut", "retryDelete"}
                   /\ CallsForCurrent(r) = {}
                   /\ run[r].pc = "retryDelete"
                        => KvGet(kv, CurKey(r)) = NumToString(run[r].retriesLeft - 1))
    /\ [][\A r \in Runs :
            (ValidUntrusted(r) /\ run[r].pc = "retryDelete" /\ run'[r].pc # "retryDelete")
                => /\ KvGet(kv', run[r].mediaKey) = Absent
                   /\ KvGet(kv', run[r].rawMediaKey) = Absent
                   /\ KvGet(kv', CurKey(r)) = NumToString(run[r].retriesLeft - 1)
                   /\ sent' = sent]_vars

\* a valid untrusted video URL at a count above 1 has had its count written
C24_Witness ==
    \E r \in Runs :
        /\ ValidUntrusted(r)
        /\ run[r].pc = "retryDelete"
        /\ run[r].retriesLeft = 3

\* the video URL of run r's post is valid, of a trusted source and not DASH
ValidTrustedVideo(r) ==
    /\ Processing(r)
    /\ isVideoUrl(run[r].videoUrl)
    /\ run[r].isValidVideo
    /\ isTrustedSource(run[r].videoUrl)
    /\ ~IncludesDash(run[r].videoUrl)

\* C25: once the video URL of a post is valid, trusted and not DASH, the post
\* is sent with sendVideo in that invocation whatever its retry count; on
\* sink success the post key goes from 'pending' to '0' and the media key
\* to '1', with no retry count written in between.  Stated for invocations
\* that run one after the other.
C25_FitVideoSentAtOnce ==
    /\ [](\A r \in Runs :
            ValidTrustedVideo(r)
                => /\ run[r].pc \in {"sendVideo", "commitPost", "commitMedia",
                                     "failDelMedia", "failDelPost"}
                   /\ run[r].pc \in {"sendVideo", "commitPost"}
                        => KvGet(kv, CurKey(r)) = "pending"
                   /\ run[r].pc \in {"commitPost", "commitMedia"}
                        => \E k \in CallsForCurrent(r) :
                             /\ sent[r][k].verb = "sendVideo"
                             /\ sent[r][k].media = run[r].videoUrl
                             /\ sent[r][k].answer = "ok"
                   /\ run[r].pc = "commitMedia" => KvGet(kv, CurKey(r)) = "0")
    /\ [][\A r \in Runs :
            (ValidTrustedVideo(r) /\ run[r].pc = "commitMedia"
                /\ run'[r].pc # "commitMedia")
                => /\ KvGet(kv', CurKey(r)) = "0"
                   /\ KvGet(kv', run[r].mediaKey) = "1"]_vars

\* a valid trusted video is committed by an invocation that found the count 3
C25_Witness ==
    \E r \in Runs :
        /\ ValidTrustedVideo(r)
        /\ run[r].pc = "commitMedia"
        /\ run[r].retriesLeft = 3

\* the media URL of run r's post is a direct image
ImagePost(r) ==
    /\ Processing(r)
    /\ run[r].videoUrl # NoUrl
    /\ isDirectImageUrl(run[r].videoUrl)

\* C26: for a media URL that is a direct image no validation and no browser
\* is run and the post is not put back for a retry; the only sink call is one
\* sendPhoto that carries the image and the caption with its link, and on
\* sink success the post key becomes '0' and the media key '1'.  Stated for
\* invocations that run one after the other.
C26_ImageSentAsPhoto ==
    /\ [](\A r \in Runs :
            ImagePost(r)
                => /\ run[r].pc \notin {"validate1", "validate2", "validate3",
                                        "resolve1", "resolve2", "sendVideo",
                                        "sendMessage", "retryPut", "retryDelete"}
                   /\ Cardinality(CallsForCurrent(r)) <= 1
                   /\ \A k \in CallsForCurrent(r) :
                        /\ sent[r][k].verb = "sendPhoto"
                        /\ sent[r][k].media = run[r].videoUrl
                        /\ sent[r][k].link = run[r].videoUrl
                   /\ run[r].pc \in {"commitPost", "commitMedia"}
                        => \E k \in CallsForCurrent(r) : sent[r][k].answer = "ok"
                   /\ run[r].pc = "commitMedia" => KvGet(kv, CurKey(r)) = "0")
    /\ [][\A r \in Runs :
            (ImagePost(r) /\ run[r].pc = "commitMedia" /\ run'[r].pc # "commitMedia")
                => /\ KvGet(kv', CurKey(r)) = "0"
                   /\ KvGet(kv', run[r].mediaKey) = "1"]_vars

\* an image was sent with sendPhoto and the commit of its post key is written
C26_Witness ==
    \E r \in Runs :
        /\ ImagePost(r)
        /\ run[r].pc = "commitMedia"
        /\ \E k \in CallsForCurrent(r) : sent[r][k].verb = "sendPhoto"

\* C27: for a post without media URL no 'pending' is ever written and no
\* browser, validation or sink verb is used; the one step taken for it writes
\* the retry count minus one on its post key and leaves every other record of
\* the store, the media keys among them, as it was.
C27_NoMediaTouchesOnlyPostKey ==
    /\ [](\A i \in DOMAIN posts : NoMedia(posts[i]) => PostVal(i) # "pending")
    /\ [](\A r \in Runs :
            (Processing(r) /\ NoMedia(Cur(r)))
                => run[r].pc = "putNoMedia" /\ CallsForCurrent(r) = {})
    /\ [][\A r \in Runs :
            (Processing(r) /\ NoMedia(Cur(r)) /\ run'[r] # run[r])
                => /\ sent' = sent
                   /\ delivered' = delivered
                   /\ DOMAIN kv' = DOMAIN kv \cup {CurKey(r)}
                   /\ \A k \in DOMAIN kv : k # CurKey(r) => kv'[k] = kv[k]
                   /\ kv'[CurKey(r)] =
                        [val |-> NumToString(run[r].retriesLeft - 1), ttl |-> Ttl]]_vars

\* the count of a post without media is written while the store holds the
\* committed media key of another post
C27_Witness ==
    \E r \in Runs :
        /\ run[r].pc = "putNoMedia"
        /\ NoMedia(Cur(r))
        /\ run[r].retriesLeft = 4
        /\ \E k \in DOMAIN kv : k.ns = "media" /\ kv[k].val = "1"

\* the place of post i in the listing s, which holds it once
PlaceIn(s, i) == CHOOSE k \in DOMAIN s : s[k] = i

\* run r is inside an invocation, past the fetch
InBatch(r) == run[r].pc \notin {"idle", "fetch"}

\* the keys run r works with for its current post
KeysOfCurrent(r) == {CurKey(r), run[r].rawMediaKey, run[r].mediaKey}

\* C28: only the records with flair 'Media' are processed, in the reverse of
\* the feed order: the batch holds exactly the Media records of the feed,
\* the later in the feed the earlier in the batch; the loop goes through the
\* batch forwards, every store write and sink call of a step belongs to the
\* post the loop stands at, and the calls of the invocation are in batch
\* order.  Stated for invocations that run one after the other.
C28_MediaOnlyOldestFirst ==
    /\ [](\A r \in Runs :
            InBatch(r)
                => /\ {run[r].batch[k] : k \in DOMAIN run[r].batch}
                        = {feed[k] : k \in {j \in DOMAIN feed :
                                              posts[feed[j]].link_flair_text = "Media"}}
                   /\ \A a, b \in DOMAIN run[r].batch :
                        a < b => PlaceIn(feed, run[r].batch[a]) > PlaceIn(feed, run[r].batch[b])
                   /\ Processing(r) => Cur(r).link_flair_text = "Media"
                   /\ \A k, l \in DOMAIN sent[r] :
                        k < l => PlaceIn(run[r].batch, sent[r][k].post)
                                    <= PlaceIn(run[r].batch, sent[r][l].post))
    /\ [](\A i \in DOMAIN posts :
            posts[i].link_flair_text # "Media"
                => /\ PostVal(i) = Absent
                   /\ \A c \in BagToSet(delivered) : c.post # i)
    /\ [][\A r \in Runs :
            (InBatch(r) /\ InBatch(r)')
                => /\ run'[r].i >= run[r].i
                   /\ run'[r].batch = run[r].batch
                   /\ kv' # kv
                        => /\ Processing(r)
                           /\ \A k \in DOMAIN kv \cup DOMAIN kv' :
                                k \notin KeysOfCurrent(r)
                                    => k \in DOMAIN kv /\ k \in DOMAIN kv' /\ kv'[k] = kv[k]
                   /\ sent'[r] # sent[r]
                        => /\ Processing(r)
                           /\ Len(sent'[r]) = Len(sent[r]) + 1
                           /\ sent'[r][Len(sent'[r])].post = run[r].batch[run[r].i]]_vars

\* the invocation has delivered the later record of the feed and stands at
\* the earlier one
C28_Witness ==
    /\ Len(feed) = 2
    /\ Processing(1)
    /\ run[1].i = 2
    /\ Cur(1) = posts[feed[1]]
    /\ \E k \in DOMAIN sent[1] : sent[1][k].post = feed[2] /\ sent[1][k].answer = "ok"

\* the steps of the expensive work before the final media key is known: the
\* first validation and the first browser session
EarlyWork == {"validate1", "resolve1"}

\* the steps of the expensive work on the final media URL: the caption
\* generation, the validations, the last browser session and the sink calls
LateWork == {"ai", "validate2", "resolve2", "validate3",
             "sendPhoto", "sendVideo", "sendMessage"}

\* C29: for a post with a media URL, the post key and the raw media key hold
\* 'pending' when the first browser session or validation starts, and the
\* post key and the media key (the raw one, or the final one the reservation
\* was moved to) hold 'pending' at the caption generation, at the later
\* validations and browser session and at every sink call.  Stated for
\* invocations that run one after the other.
C29_ReservedBeforeWork ==
    \A r \in Runs :
        /\ run[r].pc \in EarlyWork
             => /\ KvGet(kv, CurKey(r)) = "pending"
                /\ KvGet(kv, run[r].rawMediaKey) = "pending"
        /\ run[r].pc \in LateWork
             => /\ KvGet(kv, CurKey(r)) = "pending"
                /\ KvGet(kv, run[r].mediaKey) = "pending"
                /\ run[r].mediaKey # NoKey

\* a browser session is open for a post whose two keys are reserved
C29_Witness ==
    \E r \in Runs :
        /\ run[r].pc = "resolve1"
        /\ KvGet(kv, CurKey(r)) = "pending"
        /\ KvGet(kv, run[r].rawMediaKey) = "pending"

\* C30: in every state of the store a post key holds 'pending' or a retry
\* count from 0 to 4, a media key holds 'pending' or '1', and every record
\* carries the TTL of 604800 seconds it was written with.
C30_StoreLayout ==
    \A k \in DOMAIN kv :
        /\ kv[k].ttl = 604800
        /\ k.ns \in {"post", "media"}
        /\ k.ns = "post" => kv[k].val \in {"pending", "0", "1", "2", "3", "4"}
        /\ k.ns = "media" => kv[k].val \in {"pending", "1"}

\* the store holds a committed post with its media and a post put back at 4
C30_Witness ==
    /\ \E k \in DOMAIN kv : k.ns = "post" /\ kv[k].val = "0"
    /\ \E k \in DOMAIN kv : k.ns = "media" /\ kv[k].val = "1"
    /\ \E k \in DOMAIN kv : k.ns = "post" /\ kv[k].val = "4"

\* the steps between the resolution and the caption generation that check
\* and move the reservation to a final media key
MoveSteps == {"getFinalMedia", "putDupFinal", "moveDelete", "movePut"}

\* C31: when the browser resolver gives no URL, or the URL it was given, the
\* media URL of the post stays as it was, the final media key is the raw
\* media key reserved before the resolution, the store is not written and
\* the pipeline goes on to the caption generation; the reservation is checked
\* again and moved only for a media URL that the resolution has replaced.
C31_NoMatchKeepsReservation ==
    /\ [](\A r \in Runs :
            run[r].pc \in MoveSteps
                => /\ run[r].videoUrl # VideoUrlOf(Cur(r))
                   /\ run[r].mediaKey # run[r].rawMediaKey)
    /\ [][\A r \in Runs :
            (run[r].pc = "resolve1" /\ run'[r].pc \notin {"resolve1", "idle"}
                /\ run'[r].videoUrl = run[r].videoUrl)
                => /\ run'[r].mediaKey = run[r].rawMediaKey
                   /\ run'[r].rawMediaKey = run[r].rawMediaKey
                   /\ run'[r].pc = "ai"
                   /\ kv' = kv]_vars

\* the resolver found nothing for a page URL, which goes on under its raw key
C31_Witness ==
    \E r \in Runs :
        /\ run[r].pc = "ai"
        /\ ~IncludesMp4(run[r].videoUrl)
        /\ ~isDirectImageUrl(run[r].videoUrl)
        /\ run[r].videoUrl = VideoUrlOf(Cur(r))
        /\ run[r].mediaKey = run[r].rawMediaKey
        /\ KvGet(kv, run[r].rawMediaKey) = "pending"

\* the place of a step of getFinalStreamUrl in its ladder
Rung(pc) ==
    CASE pc = "goto" -> 1 [] pc = "waitForRequest" -> 2 [] pc = "evaluateDom" -> 3
      [] pc = "evaluatePerf" -> 4 [] pc = "close" -> 5 [] pc = "done" -> 6
      [] OTHER -> 0

AtLeast100000 == {"100000"}

\* C33: validateVideoUrl returns true only if the HEAD probe succeeds with a
\* content type that holds video/ or application/octet-stream and is not
\* text/html or text/plain, the ranged GET succeeds with a content type that
\* is not textual and a body that does not begin with markup, and, for the
\* HEAD content type application/octet-stream, the declared content length
\* is at least 100000.
C33_TrueOnlyIfAllHold ==
    (Validated /\ unit.result)
        => /\ ResponseOk(unit.probe.head)
           /\ \/ TypeIncludes(unit.probe.ctype, "video/")
              \/ TypeIncludes(unit.probe.ctype, "application/octet-stream")
           /\ ~TypeIncludes(unit.probe.ctype, "text/html")
           /\ ~TypeIncludes(unit.probe.ctype, "text/plain")
           /\ ResponseOk(unit.probe.get)
           /\ ~TypeIncludes(unit.probe.gtype, "text/html")
           /\ ~TypeIncludes(unit.probe.gtype, "text/plain")
           /\ unit.probe.body \notin {"throw", "<html>", "  <html>"}
           /\ TypeIncludes(unit.probe.ctype, "application/octet-stream")
                => unit.probe.clen \in AtLeast100000

\* run r has met every post of its batch and is about to return
AtReturn(r) == run[r].pc = "loop" /\ run[r].i > Len(run[r].batch)

\* C34: when an invocation returns from the end of its loop, none of the
\* media keys it has reserved (the keys of processedThisRun) and none of the
\* post keys of the posts it has worked on is still 'pending'.
C34_NoPendingLeft ==
    \A r \in Runs :
        AtReturn(r)
            => /\ \A k \in run[r].seen : KvGet(kv, k) # "pending"
               /\ \A j \in DOMAIN run[r].batch :
                    j \notin run[r].skipped
                        => KvGet(kv, derivePostKey(posts[run[r].batch[j]])) # "pending"

\* C35: the media key about to be committed as '1' after a successful
\* delivery is the canonical key of the photo or video URL that the sink was
\* given.
C35_CommittedKeyOfSentUrl ==
    \A r \in Runs :
        run[r].pc = "commitMedia"
            => \A k \in CallsForCurrent(r) :
                 (sent[r][k].answer = "ok" /\ sent[r][k].media # NoUrl)
                    => run[r].mediaKey = MediaKey(sent[r][k].media)

\* a media key that is taken: reserved or committed in the store
Taken(k) == KvGet(kv, k) \in {"pending", "1"}

\* C36: when a post is about to be marked '0' as a duplicate of media, the
\* media key it duplicates is in the store, as 'pending' or '1'.
C36_DuplicateOfTakenMedia ==
    \A r \in Runs :
        /\ run[r].pc = "putDup" => Taken(run[r].rawMediaKey)
        /\ run[r].pc = "putDupFinal" => Taken(run[r].mediaKey)

(***************************************************************************)
(* Invocations one after the other over a listing that holds a post twice. *)
(***************************************************************************)
RepeatedListings == {<<1, 1>>, <<2, 2>>, <<1, 2, 1>>, <<2, 1, 2>>}

InitRepeated ==
    /\ posts \in Scenarios
    /\ kv = <<>>
    /\ run = [r \in Runs |-> Idle]
    /\ delivered = EmptyBag
    /\ sent = [r \in Runs |-> <<>>]
    /\ feed \in RepeatedListings
    /\ started = {}
    /\ unit = NoUnit

NextRepeated ==
    /\ \E r \in Runs : Scheduled(r) \/ Step(r)
    /\ UNCHANGED unit

SpecRepeated == InitRepeated /\ [][NextRepeated]_vars

\* the loop of run r stands at a post that the batch held at an earlier place
SecondOccurrence(r) ==
    /\ InBatch(r)
    /\ run[r].i <= Len(run[r].batch)
    /\ \E j \in 1..(run[r].i - 1) : run[r].batch[j] = run[r].batch[run[r].i]

\* C37: within one invocation a post is processed at most once: when the
\* loop stands at the second occurrence of a post of the batch, the post is
\* skipped, so that no step works on it.
C37_SecondOccurrenceSkipped ==
    \A r \in Runs : SecondOccurrence(r) => ~Processing(r)

\* C38: in one invocation at most one sink call is made for any one post:
\* no two calls of the invocation are for the same post, and while a run
\* stands at a sink call none has been made yet for its post.
C38_OneSinkCallPerPost ==
    \A r \in Runs :
        /\ \A k, l \in DOMAIN sent[r] : sent[r][k].post = sent[r][l].post => k = l
        /\ run[r].pc \in {"sendPhoto", "sendVideo", "sendMessage"}
             => CallsForCurrent(r) = {}

\* an invocation has made a call that failed for one post and stands at the
\* call for the next
C38_Witness ==
    /\ Len(sent[1]) = 1
    /\ sent[1][1].answer # "ok"
    /\ run[1].pc \in {"sendPhoto", "sendVideo", "sendMessage"}
    /\ run[1].i = 2

(***************************************************************************)
(* Undisturbed invocations: fetchRedditNew succeeds, env.AI.run and        *)
(* getFinalStreamUrl return, Telegram accepts every call, and invocations  *)
(* run one after the other on an unchanging listing.  unit counts the      *)
(* invocations that have returned.                                         *)
(***************************************************************************)
MaxInvocations == 6

InitQuiet ==
    /\ posts \in Scenarios
    /\ kv = <<>>
    /\ run = [r \in Runs |-> Idle]
    /\ delivered = EmptyBag
    /\ sent = [r \in Runs |-> <<>>]
    /\ feed \in Listings(Len(posts))
    /\ started = {}
    /\ unit = [fn |-> "scheduled", done |-> FALSE, returned |-> 0]

\* a step of scheduled in which nothing fails: it does not enter the failure
\* path of the post and does not leave the invocation by an error
NextQuiet ==
    /\ unit.returned < MaxInvocations
    /\ \E r \in Runs :
         /\ Scheduled(r) \/ Step(r)
         /\ run'[r].pc # "failDelMedia"
         /\ run[r].pc \in {"fetch", "resolve1"} => run'[r].pc # "idle"
         /\ unit' = IF run[r].pc # "idle" /\ run'[r].pc = "idle"
                    THEN [unit EXCEPT !.returned = @ + 1]
                    ELSE unit

SpecQuiet == InitQuiet /\ [][NextQuiet]_vars

\* the posts of the listing that reach the batch with a media URL
MediaPostsOfBatch ==
    {i \in DOMAIN posts : (\E j \in DOMAIN Batch(feed) : Batch(feed)[j] = i)
                          /\ ~NoMedia(posts[i])}

\* C39: with a sink that accepts every delivery, no throw and invocations one
\* after the other, a post with a media URL that is in every batch is at post
\* key '0' once 5 invocations have returned and stays there; between
\* invocations it is never 'pending', and after k invocations its retry count
\* is at most 5 - k.
C39_DoneWithinFiveInvocations ==
    \A i \in MediaPostsOfBatch :
        /\ unit.returned >= 5 => PostVal(i) = "0"
        /\ (\A r \in Runs : At(r, "idle"))
             => /\ PostVal(i) # "pending"
                /\ unit.returned <= 5 => Count(PostVal(i)) <= 5 - unit.returned

\* four invocations have put a post with media back, and the fifth has
\* delivered it as its last attempt
C39_Witness ==
    /\ unit.returned = 5
    /\ \A r \in Runs : At(r, "idle")
    /\ \E i \in MediaPostsOfBatch :
         /\ PostVal(i) = "0"
         /\ \E c \in BagToSet(delivered) : c.post = i /\ c.retries = 1

====
